---- MODULE Spec2Model ----
(***************************************************************************)
(* rofi-keys (src/main.rs): one run of the launcher.                       *)
(*                                                                         *)
(* Strings that the program formats or inspects character by character     *)
(* (entry keys, labels, the theme path, HOME, the text piped to the        *)
(* selector) are sequences of one-character strings.  Strings that are     *)
(* only passed along (commands, the menu title, selector flags) are        *)
(* atomic.  An Option<T> is a sequence of length 0 (None) or 1 (Some).     *)
(***************************************************************************)
EXTENDS Integers, Sequences, FiniteSets, TLC

VARIABLES
    cli,          \* Cli { config: Option<PathBuf>, init: bool }
    home,         \* the HOME environment variable, Option<String>
    fs,           \* the file system: path -> file state
    fs0,          \* the file system as it was before the run
    pc,           \* position of main
    config_path,  \* main's config_path, Option (None before it is resolved)
    config,       \* main's config, Option
    load_err,     \* the error load_config returned ("" when none)
    menu,         \* the Menu, Option
    selector,     \* the rofi child: state, arguments, text written to stdin
    exit_code,    \* display_with_rofi's exit_code, Option
    result,       \* what display_with_rofi returned: Option<String>
    launched,     \* commands handed to `sh -c`, in order
    status,       \* exit status of the run, Option
    io_log        \* file-system operations performed, in order

vars == <<cli, home, fs, fs0, pc, config_path, config, load_err, menu, selector,
          exit_code, result, launched, status, io_log>>

----------------------------------------------------------------------------
(* Bounds of the model *)

\* most entries in a configuration file of the whole-run specification
MaxEntries == 2
\* most entries of a menu in the selector specification
MaxMenuEntries == 3

----------------------------------------------------------------------------
(* Option and sequence helpers *)

None == <<>>
Some(x) == <<x>>
IsSome(o) == Len(o) = 1
IsNone(o) == Len(o) = 0
Unwrap(o) == o[1]

SeqsUpTo(S, n) == UNION {[1..k -> S] : k \in 0..n}

RECURSIVE Flatten(_)
\* concatenation of a sequence of strings
Flatten(ss) == IF ss = <<>> THEN <<>> ELSE Head(ss) \o Flatten(Tail(ss))

RECURSIVE Join(_, _)
\* [String]::join(sep)
Join(ss, sep) ==
    IF ss = <<>> THEN <<>>
    ELSE IF Len(ss) = 1 THEN Head(ss)
    ELSE Head(ss) \o sep \o Join(Tail(ss), sep)

NL == "\n"

----------------------------------------------------------------------------
(* io::Result *)

Ok(v) == [ok |-> TRUE, val |-> v]
Err(e) == [ok |-> FALSE, val |-> e]

----------------------------------------------------------------------------
(* Configurations *)

\* MenuEntryConfig { key, label, command }
EntryConfig(k, l, c) == [key |-> k, label |-> l, command |-> c]

\* create_default_config()
create_default_config ==
    [theme |-> None,
     menu_title |-> Some("Applications"),
     entries |-> <<
        EntryConfig(<<"f">>, <<"F","i","r","e","f","o","x">>, "firefox"),
        EntryConfig(<<"p">>,
                    <<"F","i","r","e","f","o","x"," ","P","r","i","v","a","t","e">>,
                    "firefox --private-window"),
        EntryConfig(<<"m">>, <<"M","P","V">>, "mpv"),
        EntryConfig(<<"v">>,
                    <<"M","P","V"," ","(","c","l","i","p","b","o","a","r","d",")">>,
                    "mpv \"$(xclip -o)\""),
        EntryConfig(<<"t">>, <<"T","e","r","m","i","n","a","l">>,
                    "x-terminal-emulator") >>]

\* key strings a configuration file may hold: empty, one character, and
\* longer ones whose first character repeats another entry's
CfgKeys == {<<>>, <<"a">>, <<"a","b">>, <<"b">>}
CfgLabels == {<<"L">>}
CfgCommands == {"c1", "c2"}
CfgThemes == {None, Some(<<"~","/","t">>)}
CfgTitles == {None, Some("Apps")}

CfgEntries == {EntryConfig(k, l, c) : k \in CfgKeys, l \in CfgLabels, c \in CfgCommands}

\* the configurations a well-formed file may hold
Configs ==
    {[theme |-> t, menu_title |-> ti, entries |-> es] :
        t \in CfgThemes, ti \in CfgTitles, es \in SeqsUpTo(CfgEntries, MaxEntries)}

----------------------------------------------------------------------------
(* Paths, environment and files *)

HomeDir == <<"/","h">>
DefaultRel == ".config/rofi-keys/config.json"

\* a PathBuf: a base directory (characters) and what was pushed onto it
ExplicitPath == [base |-> <<>>, rel |-> "alt/config.json"]
DefaultPath == [base |-> HomeDir, rel |-> DefaultRel]
Paths == {ExplicitPath, DefaultPath}

\* get_default_config_path(): HOME, then push(".config/rofi-keys/config.json")
get_default_config_path(h) ==
    IF IsNone(h) THEN Err("HOME directory not found")
    ELSE Ok([base |-> Unwrap(h), rel |-> DefaultRel])

\* faulty variant: HOME is looked up before the explicit path is considered
resolve_config_path_home_first(c, h) ==
    IF IsNone(h) THEN Err("HOME directory not found")
    ELSE IF IsSome(c.config) THEN Ok(Unwrap(c.config))
    ELSE Ok([base |-> Unwrap(h), rel |-> DefaultRel])

\* main: let config_path = match cli.config { Some(path) => path, None => get_default_config_path()? }
resolve_config_path(c, h) ==
    IF IsSome(c.config) THEN Ok(Unwrap(c.config))
    ELSE get_default_config_path(h)

\* A file's text is kept as what a JSON parser makes of it: the
\* configuration it denotes, or nothing when it does not parse.
Garbage == <<>>

\* serde_json::to_string_pretty(config)
to_string_pretty(cfg) == <<cfg>>

\* serde_json::from_str(&content)
from_str(content) ==
    IF Len(content) = 0 THEN Err("Invalid JSON config") ELSE Ok(content[1])

Absent == [kind |-> "absent", content |-> Garbage]
Unreadable == [kind |-> "unreadable", content |-> Garbage]
File(content) == [kind |-> "file", content |-> content]

\* Path::exists()
exists(f) == f.kind # "absent"

\* fs::read_to_string(path)
read_to_string(f) ==
    IF f.kind = "file" THEN Ok(f.content) ELSE Err("read error")

\* a file-system call, the path it was given, and whether it succeeded
Op(o, p, ok) == [op |-> o, path |-> p, ok |-> ok]

\* write_config(config, path): every way it can end.  create_dir_all may
\* fail (nothing touched); fs::write may fail before the file is opened
\* (nothing touched) or after it was created or truncated (a partial text
\* is left); otherwise the file holds the serialized configuration.
write_config(cfg, p, f) ==
    { [res |-> Err("create_dir_all"), file |-> f,
       log |-> <<Op("create_dir_all", p, FALSE)>>],
      [res |-> Err("write"), file |-> f,
       log |-> <<Op("create_dir_all", p, TRUE), Op("write", p, FALSE)>>],
      [res |-> Err("write"),
       file |-> IF f.kind = "unreadable" THEN f ELSE File(Garbage),
       log |-> <<Op("create_dir_all", p, TRUE), Op("write", p, FALSE)>>],
      [res |-> Ok("written"), file |-> File(to_string_pretty(cfg)),
       log |-> <<Op("create_dir_all", p, TRUE), Op("write", p, TRUE)>>] }

\* faulty variant: a missing file yields the default without writing it
load_config_not_persisted(p, f) ==
    IF ~exists(f)
    THEN { [res |-> Ok(create_default_config), file |-> f,
            log |-> <<Op("exists", p, TRUE)>>] }
    ELSE LET content == read_to_string(f) IN
         { [res |-> IF ~content.ok THEN content ELSE from_str(content.val),
            file |-> f,
            log |-> <<Op("exists", p, TRUE), Op("read", p, content.ok)>>] }

\* load_config(config_path): every way it can end
load_config(p, f) ==
    IF ~exists(f)
    THEN { [res |-> IF w.res.ok THEN Ok(create_default_config) ELSE w.res,
            file |-> w.file,
            log |-> <<Op("exists", p, TRUE)>> \o w.log] :
           w \in write_config(create_default_config, p, f) }
    ELSE LET content == read_to_string(f) IN
         { [res |-> IF ~content.ok THEN content ELSE from_str(content.val),
            file |-> f,
            log |-> <<Op("exists", p, TRUE), Op("read", p, content.ok)>>] }

\* expand_path(path)
expand_path(path, h) ==
    IF Len(path) >= 2 /\ path[1] = "~" /\ path[2] = "/" /\ IsSome(h)
    THEN Unwrap(h) \o Tail(path)
    ELSE path

----------------------------------------------------------------------------
(* Menu *)

MenuEntry(k, l, c) == [key |-> k, label |-> l, command |-> c]

\* Menu::new(title, theme)
MenuNew(title, theme) == [title |-> title, entries |-> <<>>, theme |-> theme]

\* Menu::add_entry
add_entry(m, k, l, c) == [m EXCEPT !.entries = Append(@, MenuEntry(k, l, c))]

RECURSIVE add_entries(_, _)
\* main: for entry in config.entries { if let Some(key_char) = entry.key.chars().next() {...} }
add_entries(m, es) ==
    IF es = <<>> THEN m
    ELSE LET e == Head(es) IN
         add_entries(IF Len(e.key) > 0
                     THEN add_entry(m, e.key[1], e.label, e.command)
                     ELSE m,
                     Tail(es))

\* main: the menu built from a configuration
build_menu(cfg, h) ==
    LET theme == IF IsSome(cfg.theme) THEN Some(expand_path(Unwrap(cfg.theme), h))
                 ELSE None
        title == IF IsSome(cfg.menu_title) THEN Unwrap(cfg.menu_title)
                 ELSE "Shortcuts"
    IN add_entries(MenuNew(title, theme), cfg.entries)

\* format!("[{}] {}", entry.key, entry.label)
format_entry(e) == <<"[", e.key, "]", " ">> \o e.label

\* Menu::generate_rofi_input
generate_rofi_input(m) ==
    Join([i \in 1..Len(m.entries) |-> format_entry(m.entries[i])], <<NL>>)

RECURSIVE find_key(_, _)
\* entries.iter().find(|entry| entry.key == key)
find_key(es, k) ==
    IF es = <<>> THEN None
    ELSE IF Head(es).key = k THEN Some(Head(es))
    ELSE find_key(Tail(es), k)

\* faulty variant: the lookup returns the last entry with the key
get_command_for_key_last_match(m, k) ==
    LET hits == {i \in 1..Len(m.entries) : m.entries[i].key = k} IN
    IF hits = {} THEN None
    ELSE Some(m.entries[CHOOSE i \in hits : \A j \in hits : j <= i].command)

\* Menu::get_command_for_key
get_command_for_key(m, k) ==
    LET e == find_key(m.entries, k) IN
    IF IsSome(e) THEN Some(Unwrap(e).command) ELSE None

\* let kb_index = i + 1, for the entry at 0-based position i
kb_index_at(i) == i + 1

\* HashMap::insert
insert(map, k, v) ==
    [x \in DOMAIN map \cup {k} |-> IF x = k THEN v ELSE map[x]]

RECURSIVE key_to_index_from(_, _, _)
\* the key_to_index map after the loop has handled entries n+1 .. Len(es)
key_to_index_from(es, n, map) ==
    IF n >= Len(es) THEN map
    ELSE key_to_index_from(es, n + 1, insert(map, es[n + 1].key, kb_index_at(n)))

\* display_with_rofi: key_to_index once the loop over the entries is done
key_to_index(m) == key_to_index_from(m.entries, 0, <<>>)

\* display_with_rofi: kb_args, "-kb-custom-N" followed by the key, per entry
kb_args(m) ==
    Flatten([j \in 1..Len(m.entries) |->
                <<"-kb-custom-" \o ToString(kb_index_at(j - 1)), m.entries[j].key>>])

\* display_with_rofi: everything handed to the rofi process
rofi_args(m) ==
    [flags |-> <<"-dmenu", "-i", "-p", m.title, "-no-fork", "-markup-rows",
                 "-no-custom", "-theme-str",
                 "configuration { matching: \"regex\"; }">>,
     theme |-> m.theme,
     kb |-> kb_args(m)]

\* first exit code that reports a custom key binding
CustomBase == 10
\* exit code minus this is the binding's index
CustomOffset == 9

\* faulty variant: the first custom binding is taken to report as index 0
kb_index_of_zero_based(c) == c - CustomBase

\* let kb_index = exit_code - 9
kb_index_of(c) == c - CustomOffset

\* display_with_rofi, from the exit code on: every value it can return
\* (the loop visits the map in hash order and returns at its first hit)
decode(m, c) ==
    IF c >= CustomBase
    THEN LET map == key_to_index(m)
             hits == {k \in DOMAIN map :
                        map[k] = kb_index_of(c) /\ IsSome(get_command_for_key(m, k))}
         IN IF hits = {} THEN {None}
            ELSE {get_command_for_key(m, k) : k \in hits}
    ELSE {None}

----------------------------------------------------------------------------
(* The run of main *)

\* what is in the file main resolves to, before the run
FileStates == {Absent, Unreadable, File(Garbage)} \cup {File(to_string_pretty(c)) : c \in Configs}
\* what is in the other file
OtherFileStates == {Absent, File(Garbage), File(to_string_pretty(create_default_config))}

NoSelector == [state |-> "none", args |-> None, input |-> None]

Init ==
    /\ cli \in [config : {None, Some(ExplicitPath)}, init : BOOLEAN]
    /\ home \in {None, Some(HomeDir)}
    /\ \E target \in FileStates, other \in OtherFileStates :
         fs = IF IsSome(cli.config)
              THEN [p \in Paths |-> IF p = ExplicitPath THEN target ELSE other]
              ELSE [p \in Paths |-> IF p = DefaultPath THEN target ELSE other]
    /\ fs0 = fs
    /\ pc = "start"
    /\ config_path = None
    /\ config = None
    /\ load_err = ""
    /\ menu = None
    /\ selector = NoSelector
    /\ exit_code = None
    /\ result = None
    /\ launched = <<>>
    /\ status = None
    /\ io_log = <<>>

\* main: the config path, custom or default; `?` ends the run on an error
ResolveConfigPath ==
    /\ pc = "start"
    /\ LET r == resolve_config_path(cli, home) IN
         \/ /\ r.ok
            /\ config_path' = Some(r.val)
            /\ pc' = "resolved"
            /\ UNCHANGED status
         \/ /\ ~r.ok
            /\ pc' = "exit"
            /\ status' = Some(1)
            /\ UNCHANGED config_path
    /\ UNCHANGED <<cli, home, fs, fs0, config, load_err, menu, selector, exit_code,
                   result, launched, io_log>>

\* faulty variant: --init goes through the load path, which writes the
\* default only where no file exists
InitConfig_if_missing ==
    /\ pc = "resolved"
    /\ cli.init
    /\ LET p == Unwrap(config_path) IN
         \E l \in load_config(p, fs[p]) :
            /\ fs' = [fs EXCEPT ![p] = l.file]
            /\ io_log' = io_log \o l.log
            /\ status' = Some(IF l.res.ok THEN 0 ELSE 1)
    /\ pc' = "exit"
    /\ UNCHANGED <<cli, home, fs0, config_path, config, load_err, menu, selector,
                   exit_code, result, launched>>

\* main: if cli.init { write_config(&default_config, &config_path)?; return Ok(()) }
InitConfig ==
    /\ pc = "resolved"
    /\ cli.init
    /\ LET p == Unwrap(config_path) IN
         \E w \in write_config(create_default_config, p, fs[p]) :
            /\ fs' = [fs EXCEPT ![p] = w.file]
            /\ io_log' = io_log \o w.log
            /\ status' = Some(IF w.res.ok THEN 0 ELSE 1)
    /\ pc' = "exit"
    /\ UNCHANGED <<cli, home, fs0, config_path, config, load_err, menu, selector,
                   exit_code, result, launched>>

\* faulty variant: the fallback arm also writes the default over the file
LoadConfig_persisting_fallback ==
    /\ pc = "resolved"
    /\ ~cli.init
    /\ LET p == Unwrap(config_path) IN
         \E l \in load_config(p, fs[p]) :
            /\ fs' = [fs EXCEPT ![p] =
                        IF l.res.ok THEN l.file
                        ELSE File(to_string_pretty(create_default_config))]
            /\ io_log' = io_log \o l.log
            /\ config' = Some(IF l.res.ok THEN l.res.val ELSE create_default_config)
            /\ load_err' = IF l.res.ok THEN "" ELSE l.res.val
    /\ pc' = "loaded"
    /\ UNCHANGED <<cli, home, fs0, config_path, menu, selector, exit_code, result,
                   launched, status>>

\* main: let config = match load_config(&config_path) { Ok(cfg) => cfg, Err(e) => create_default_config() }
LoadConfig ==
    /\ pc = "resolved"
    /\ ~cli.init
    /\ LET p == Unwrap(config_path) IN
         \E l \in load_config(p, fs[p]) :
            /\ fs' = [fs EXCEPT ![p] = l.file]
            /\ io_log' = io_log \o l.log
            /\ config' = Some(IF l.res.ok THEN l.res.val ELSE create_default_config)
            /\ load_err' = IF l.res.ok THEN "" ELSE l.res.val
    /\ pc' = "loaded"
    /\ UNCHANGED <<cli, home, fs0, config_path, menu, selector, exit_code, result,
                   launched, status>>

\* main: expand the theme, create the menu, add the entries
BuildMenu ==
    /\ pc = "loaded"
    /\ menu' = Some(build_menu(Unwrap(config), home))
    /\ pc' = "menu"
    /\ UNCHANGED <<cli, home, fs, fs0, config_path, config, load_err, selector,
                   exit_code, result, launched, status, io_log>>

\* display_with_rofi up to the wait: spawn rofi and write the menu to its stdin
SpawnSelector ==
    /\ pc = "menu"
    /\ LET m == Unwrap(menu) IN
         \/ \* spawn()? fails
            /\ pc' = "exit"
            /\ status' = Some(1)
            /\ UNCHANGED selector
         \/ \* stdin.write_all(..)? fails: the child is left running
            /\ selector' = [state |-> "running", args |-> Some(rofi_args(m)),
                            input |-> None]
            /\ pc' = "exit"
            /\ status' = Some(1)
         \/ /\ selector' = [state |-> "running", args |-> Some(rofi_args(m)),
                            input |-> Some(generate_rofi_input(m))]
            /\ pc' = "waiting"
            /\ UNCHANGED status
    /\ UNCHANGED <<cli, home, fs, fs0, config_path, config, load_err, menu,
                   exit_code, result, launched, io_log>>

\* the exit codes the selector is made to end with, for a menu of n entries:
\* below the custom range, each custom binding, and past the last binding
ExitCodes(n) == {0, 1, CustomBase - 1} \cup (CustomBase .. (CustomOffset + n + 2))

\* output.status.code().unwrap_or(0)
unwrap_or_0(code) == IF IsSome(code) THEN Unwrap(code) ELSE 0

\* display_with_rofi from the wait on: rofi exits, the exit code is decoded
SelectorExit ==
    /\ pc = "waiting"
    /\ \/ \* wait_with_output()? fails
          /\ selector' = [selector EXCEPT !.state = "exited"]
          /\ pc' = "exit"
          /\ status' = Some(1)
          /\ UNCHANGED <<exit_code, result>>
       \/ \E code \in {None} \cup {Some(c) : c \in ExitCodes(Len(Unwrap(menu).entries))} :
            /\ selector' = [selector EXCEPT !.state = "exited"]
            /\ exit_code' = Some(unwrap_or_0(code))
            /\ result' \in decode(Unwrap(menu), unwrap_or_0(code))
            /\ pc' = "selected"
            /\ UNCHANGED status
    /\ UNCHANGED <<cli, home, fs, fs0, config_path, config, load_err, menu,
                   launched, io_log>>

\* main: if let Some(command) = ... { execute_command(&command)?; } Ok(())
ExecuteCommand ==
    /\ pc = "selected"
    /\ IsSome(result)
    /\ \/ \* sh is spawned
          /\ launched' = Append(launched, Unwrap(result))
          /\ status' = Some(0)
       \/ \* spawn()? fails
          /\ status' = Some(1)
          /\ UNCHANGED launched
    /\ pc' = "exit"
    /\ UNCHANGED <<cli, home, fs, fs0, config_path, config, load_err, menu, selector,
                   exit_code, result, io_log>>

\* faulty variant: with no selection an empty command is still handed to sh
NoSelection_runs_empty ==
    /\ pc = "selected"
    /\ IsNone(result)
    /\ launched' = Append(launched, "")
    /\ status' = Some(0)
    /\ pc' = "exit"
    /\ UNCHANGED <<cli, home, fs, fs0, config_path, config, load_err, menu, selector,
                   exit_code, result, io_log>>

\* main: no selection, Ok(())
NoSelection ==
    /\ pc = "selected"
    /\ IsNone(result)
    /\ status' = Some(0)
    /\ pc' = "exit"
    /\ UNCHANGED <<cli, home, fs, fs0, config_path, config, load_err, menu, selector,
                   exit_code, result, launched, io_log>>

Next ==
    \/ ResolveConfigPath
    \/ InitConfig
    \/ LoadConfig
    \/ BuildMenu
    \/ SpawnSelector
    \/ SelectorExit
    \/ ExecuteCommand
    \/ NoSelection

Spec == Init /\ [][Next]_vars

----------------------------------------------------------------------------
(* The selector on its own: the run from the point where the menu is built, *)
(* for menus with repeated keys and labels that hold a line feed            *)

MenuKeys == {"a", "b", "c"}
MenuLabels == {<<"L">>, <<"x", NL, "y">>}
MenuCommands == {"c1", "c2"}

\* configurations whose entries all have a one-character key
MenuConfigs ==
    {[theme |-> None, menu_title |-> None, entries |-> es] :
        es \in SeqsUpTo({EntryConfig(<<k>>, l, c) :
                            k \in MenuKeys, l \in MenuLabels, c \in MenuCommands},
                        MaxMenuEntries)}

InitMenu ==
    /\ cli = [config |-> None, init |-> FALSE]
    /\ home = Some(HomeDir)
    /\ \E cfg \in MenuConfigs :
         /\ fs = [p \in Paths |-> IF p = DefaultPath
                                  THEN File(to_string_pretty(cfg)) ELSE Absent]
         /\ config = Some(cfg)
         /\ menu = Some(build_menu(cfg, home))
    /\ fs0 = fs
    /\ pc = "menu"
    /\ config_path = Some(DefaultPath)
    /\ load_err = ""
    /\ selector = NoSelector
    /\ exit_code = None
    /\ result = None
    /\ launched = <<>>
    /\ status = None
    /\ io_log = <<Op("exists", DefaultPath, TRUE), Op("read", DefaultPath, TRUE)>>

NextMenu ==
    \/ SpawnSelector
    \/ SelectorExit
    \/ ExecuteCommand
    \/ NoSelection

SpecMenu == InitMenu /\ [][NextMenu]_vars

----------------------------------------------------------------------------
(* Properties of the selector adapter (checked under SpecMenu) *)

\* the menu once it is built, and what display_with_rofi was given and gave
Entries == Unwrap(menu).entries
NEntries == Len(Entries)
ExitCode == Unwrap(exit_code)
\* display_with_rofi has returned Ok(..)
Decoded == IsSome(exit_code)

DistinctKeys(es) ==
    \A i, j \in 1..Len(es) : i # j => es[i].key # es[j].key

\* C1: for a menu of N entries with pairwise distinct keys and a selector
\* exit code c, display_with_rofi returns the command of the entry at
\* 0-based position c-10 when 10 <= c <= 9+N, and None when c < 10 or
\* c > 9+N.
C1_DecodeDistinctKeys ==
    (Decoded /\ DistinctKeys(Entries)) =>
        /\ (10 <= ExitCode /\ ExitCode <= 9 + NEntries)
              => result = Some(Entries[(ExitCode - 10) + 1].command)
        /\ (ExitCode < 10 \/ ExitCode > 9 + NEntries) => result = None

C1_Witness ==
    /\ Decoded
    /\ DistinctKeys(Entries)
    /\ NEntries = 3
    /\ ExitCode = 11
    /\ Entries[1].command # Entries[2].command
    /\ result = Some(Entries[2].command)

RECURSIVE SplitLines(_, _)
\* the lines of a text while reading it: cur is the line being read
SplitLines(s, cur) ==
    IF s = <<>> THEN (IF cur = <<>> THEN <<>> ELSE <<cur>>)
    ELSE IF Head(s) = NL THEN <<cur>> \o SplitLines(Tail(s), <<>>)
    ELSE SplitLines(Tail(s), Append(cur, Head(s)))

\* the lines a reader of the text sees (a final line needs no terminator)
Lines(s) == SplitLines(s, <<>>)

\* C7: for a menu with N entries (N >= 0) the text written to the selector
\* consists of exactly N lines, the i-th being "[" key "] " label of entry
\* i, in entry order (N = 0 gives empty input).
C7_RenderedLines ==
    IsSome(selector.input) =>
        /\ Lines(Unwrap(selector.input))
             = [i \in 1..NEntries |->
                  <<"[", Entries[i].key, "]", " ">> \o Entries[i].label]
        /\ (NEntries = 0 => Unwrap(selector.input) = <<>>)

\* C8: for every menu (keys not assumed distinct) the entry at 0-based
\* position i is bound to activation index i+1, and decoding uses that
\* assignment: no selection is reported exactly when c < 10 or c-9 > N, and
\* for every c with 1 <= c-9 <= N a command is returned.
C8_DecodeAnyKeys ==
    /\ IsSome(selector.args) =>
          Unwrap(selector.args).kb
            = Flatten([j \in 1..NEntries |->
                        <<"-kb-custom-" \o ToString(j), Entries[j].key>>])
    /\ Decoded =>
          /\ (result = None) <=> (ExitCode < 10 \/ ExitCode - 9 > NEntries)
          /\ (1 <= ExitCode - 9 /\ ExitCode - 9 <= NEntries) => IsSome(result)

\* entry i is the last of two or more entries that share its key
LastOfRepeatedKey(es, i) ==
    /\ \E j \in 1..(i - 1) : es[j].key = es[i].key
    /\ \A j \in (i + 1)..Len(es) : es[j].key # es[i].key

\* C9 as stated: when two or more entries share a key, the exit code
\* carrying the activation index of the last entry with that key resolves
\* to the command of that last entry.
C9_LastWriterWins ==
    Decoded =>
        \A i \in 1..NEntries :
            (LastOfRepeatedKey(Entries, i) /\ ExitCode = 9 + i)
                => result = Some(Entries[i].command)

\* position of the first entry with the key of entry i
FirstWithKeyOf(es, i) ==
    CHOOSE j \in 1..i : es[j].key = es[i].key /\ \A l \in 1..(j - 1) : es[l].key # es[i].key

\* C9, amended: when two or more entries share a key, the exit code
\* carrying the activation index of the last entry with that key resolves
\* to the command of the first entry with that key.
C9_LastIndexFirstCommand ==
    Decoded =>
        \A i \in 1..NEntries :
            (LastOfRepeatedKey(Entries, i) /\ ExitCode = 9 + i)
                => result = Some(Entries[FirstWithKeyOf(Entries, i)].command)

C9_Witness ==
    /\ Decoded
    /\ NEntries = 3
    /\ Entries[1].key = Entries[3].key
    /\ Entries[2].key # Entries[3].key
    /\ Entries[1].command # Entries[3].command
    /\ ExitCode = 12
    /\ result = Some(Entries[1].command)

----------------------------------------------------------------------------
(* Properties of the whole run (checked under Spec) *)

\* the resolved configuration path and the file there, before and now
Path == Unwrap(config_path)
DefaultText == to_string_pretty(create_default_config)
\* main has called load_config
LoadCalled == ~cli.init /\ IsSome(config_path) /\ pc # "resolved"

\* C2: a shell command is launched at most once, only after the selector
\* has exited and only if the adapter resolved a command, which is the one
\* launched; when the adapter reports no selection nothing is launched and
\* the run ends with exit status 0.
C2_LaunchAtMostOnce ==
    /\ Len(launched) <= 1
    /\ Len(launched) > 0 =>
          /\ selector.state = "exited"
          /\ IsSome(result)
          /\ launched = <<Unwrap(result)>>
    /\ (Decoded /\ IsNone(result)) => Len(launched) = 0
    /\ (Decoded /\ IsNone(result) /\ pc = "exit") => status = Some(0)

C2_Witness ==
    /\ pc = "exit"
    /\ Len(launched) = 1
    /\ launched[1] = "c2"
    /\ status = Some(0)

\* C3: without --init, when load_config fails for any reason main does not
\* abort: it goes on with the in-memory default configuration to display
\* the menu, and it does not persist that default, so a file that existed
\* is left as it was.
C3_LoadFailureFallsBack ==
    (LoadCalled /\ load_err # "") =>
        /\ config = Some(create_default_config)
        /\ pc = "loaded" => status = None
        /\ pc # "loaded" => menu = Some(build_menu(create_default_config, home))
        /\ selector.state # "none" =>
              Unwrap(selector.args) = rofi_args(build_menu(create_default_config, home))
        /\ exists(fs0[Path]) => fs = fs0
        /\ ~exists(fs0[Path]) => (fs[Path] # File(DefaultText) /\ fs[Path].content = Garbage)

C3_Witness ==
    /\ LoadCalled
    /\ load_err = "Invalid JSON config"
    /\ fs[Path] = File(Garbage)
    /\ pc = "waiting"
    /\ Unwrap(selector.input) = generate_rofi_input(build_menu(create_default_config, home))

\* C4: with --init the run writes the default configuration to the resolved
\* path whatever was there before, then exits without invoking the selector
\* or launching a command; a failure of the write ends the run with an
\* error instead of falling back.
C4_InitWritesDefault ==
    cli.init =>
        /\ selector = NoSelector
        /\ launched = <<>>
        /\ menu = None
        /\ config = None
        /\ exit_code = None
        /\ (pc = "exit" /\ IsSome(config_path)) =>
              LET written == io_log[Len(io_log)] = Op("write", Path, TRUE) IN
              /\ written => (status = Some(0) /\ fs[Path] = File(DefaultText))
              /\ ~written => status = Some(1)

C4_Witness ==
    /\ cli.init
    /\ pc = "exit"
    /\ IsSome(config_path)
    /\ fs0[Path] = File(Garbage)
    /\ fs[Path] = File(DefaultText)
    /\ status = Some(0)

\* C5: load_config on a path where no file exists returns the fixed default
\* configuration (5 entries with keys f, p, m, v, t in that order) and, when
\* it returns successfully, the file at that path exists with the default
\* configuration as content; load_config on an existing file never writes.
C5_LoadMissingFile ==
    LoadCalled =>
        /\ (~exists(fs0[Path]) /\ load_err = "") =>
              /\ config = Some(create_default_config)
              /\ [i \in 1..Len(Unwrap(config).entries) |-> Unwrap(config).entries[i].key]
                   = << <<"f">>, <<"p">>, <<"m">>, <<"v">>, <<"t">> >>
              /\ exists(fs[Path])
              /\ read_to_string(fs[Path]) = Ok(DefaultText)
        /\ exists(fs0[Path]) =>
              /\ fs = fs0
              /\ \A i \in 1..Len(io_log) : io_log[i].op \in {"exists", "read"}

C5_Witness ==
    /\ LoadCalled
    /\ pc = "loaded"
    /\ fs0[Path] = Absent
    /\ load_err = ""
    /\ fs[Path] = File(DefaultText)
    /\ Len(Unwrap(config).entries) = 5

\* C6: path resolution gives the explicit --config path whenever one is
\* supplied (HOME is not needed then) and otherwise the default path under
\* HOME; with HOME unset and no explicit path the run ends with an error
\* before any file is read or written, before the selector is invoked and
\* before a command is launched, with and without --init.
C6_ConfigPath ==
    pc # "start" =>
        /\ IsSome(cli.config) => config_path = cli.config
        /\ (IsNone(cli.config) /\ IsSome(home)) =>
              config_path = Some([base |-> Unwrap(home),
                                  rel |-> ".config/rofi-keys/config.json"])
        /\ (IsNone(cli.config) /\ IsNone(home)) =>
              /\ pc = "exit"
              /\ status = Some(1)
              /\ config_path = None
              /\ io_log = <<>>
              /\ fs = fs0
              /\ selector = NoSelector
              /\ launched = <<>>

C6_Witness ==
    /\ pc = "exit"
    /\ IsNone(cli.config)
    /\ IsNone(home)
    /\ cli.init
    /\ status = Some(1)

\* C10: building the menu drops every entry whose key string is empty and
\* keeps the others in configuration order with the first character of the
\* key as entry key; activation indices number the retained entries, so the
\* entry decoded from exit code c is the (c-9)-th retained entry, and an
\* entry with an empty key is never selected or launched.
C10_EmptyKeysDropped ==
    IsSome(menu) =>
        LET kept == SelectSeq(Unwrap(config).entries, LAMBDA e : Len(e.key) > 0) IN
        /\ Entries = [i \in 1..Len(kept) |->
                        [key |-> kept[i].key[1], label |-> kept[i].label,
                         command |-> kept[i].command]]
        /\ Decoded =>
              result = IF 10 <= ExitCode /\ ExitCode <= 9 + Len(kept)
                       THEN Some(kept[ExitCode - 9].command)
                       ELSE None
        /\ \A i \in 1..Len(launched) :
              \E j \in 1..Len(kept) : launched[i] = kept[j].command

====
